---- MODULE Spec2Model ----
(***************************************************************************)
(* NodeComposer backend: the generation queue with its single worker       *)
(* thread (musicgen_service.py), the task endpoints of the HTTP layer      *)
(* (main.py) and the training controller (training_service.py).            *)
(*                                                                         *)
(* Threads.  The HTTP handlers are `async def` functions without an await  *)
(* inside the parts modelled here, so they run one at a time on the event  *)
(* loop; the generation worker is a daemon thread of its own and the       *)
(* training functions run as background tasks on pool threads.  A handler  *)
(* is therefore atomic with respect to other handlers, but the worker and  *)
(* the training threads interleave with handlers statement by statement.   *)
(*                                                                         *)
(* Numbers.  A task's progress (a float among 0.0 0.1 0.3 0.8 1.0) is kept *)
(* in tenths; durations are kept in seconds.                               *)
(***************************************************************************)
EXTENDS Integers, Sequences, FiniteSets, TLC

(* ------------------------------ bounds ------------------------------- *)
\* number of generation requests submitted in one run of the model
MaxTasks == 2
\* number of background tasks (process_dataset, start_training) started
MaxRuns == 2
\* largest number of epochs a training request asks for
MaxEpochs == 2
\* largest number of audio files found in the dataset directory
MaxFiles == 1
\* number of background tasks started while status snapshots are kept
MaxObservedRuns == 1
\* number of generation tasks in the model of the whole process
MaxSharedTasks == 1

(* ------------------------- program constants ------------------------- *)
\* GenerationConfig.min_duration / max_duration
MinDuration == 10
MaxDuration == 120

\* the column value NULL / Python None
NULL == << >>

\* the prompts of a batch request, in the order of the list, and the default
\* duration of the batch endpoint
BatchPrompts == <<"A", "B", "C", "D">>
BatchDuration == 30

\* temperatures in tenths: the default of a request, the default range of
\* generate_variations, and the number of values random.random() takes
DefaultTemperature == 10
temperature_range == <<8, 12>>
RandomSteps == 2

\* the generation requests submitted: a plain one, one with conditioning
\* audio, and one with an empty prompt and a duration below the minimum
Requests ==
    { [prompt |-> "A", duration |-> 30, audio_conditioning |-> FALSE],
      [prompt |-> "A", duration |-> 30, audio_conditioning |-> TRUE],
      [prompt |-> "",  duration |-> 5,  audio_conditioning |-> FALSE] }

\* progress checkpoints of _process_generation, in tenths
P_QUEUED == 0
P_STARTED == 1
P_PARAMS == 3
P_GENERATED == 8
P_DONE == 10

TaskIds == 1..(MaxTasks + 1)

VARIABLES
    tasks,        \* table generation_tasks: id -> row
    files,        \* the paths under generations/ at which a file exists
    queue,        \* MusicGenService.generation_queue, a sequence of descriptors
    next_id,      \* number of ids drawn so far (uuid4 is modelled as fresh)
    is_processing,\* MusicGenService.is_processing
    w_pc,         \* position of the worker thread
    w_task,       \* task_data of the worker's current iteration, or NULL
    h_pc,         \* position of the handler running on the event loop
    h_task,       \* the row the delete handler has read, or NULL
    response,     \* the last request answered and its answer
    enq_order,    \* history: ids in the order their descriptors were put
    started,      \* history: ids in the order the worker marked them processing
    trace,        \* history: id -> the <<status, progress>> values committed
    raised,       \* history: id -> the step of its processing that raised
    is_training,  \* TrainingService.is_training
    should_stop,  \* TrainingService.should_stop
    training_status, \* TrainingService.training_status
    metadata,     \* dataset/metadata.json: NULL, or the entries saved
    checkpoints,  \* table model_checkpoints, in the order of creation
    threads       \* the background tasks started so far, one thread each

gen_vars == <<tasks, files, queue, next_id, is_processing, w_pc, w_task,
              h_pc, h_task, response, enq_order, started, trace, raised>>

train_vars == <<is_training, should_stop, training_status, metadata,
                checkpoints, threads>>

vars == <<gen_vars, train_vars>>

(* ------------------------------ helpers ------------------------------ *)
RECURSIVE GCD(_, _)
GCD(a, b) == IF b = 0 THEN a ELSE GCD(b, a % b)

\* the float a / b, kept as the fraction in lowest terms
Frac(a, b) == LET g == GCD(a, b) IN <<a \div g, b \div g>>

\* db.query(GenerationTask).filter(GenerationTask.id == id).first()
Exists(id) == id \in DOMAIN tasks

\* the row of id is there with status queued
StillQueued(id) == Exists(id) /\ tasks[id].status = "queued"

\* a new row as the GenerationTask constructor and the column defaults make it
NewTask(p, d) ==
    [prompt |-> p, duration |-> d, status |-> "queued", progress |-> P_QUEUED,
     file_path |-> NULL, completed_at |-> NULL]

\* the descriptor queue_generation puts on the queue
Descriptor(id, p, d, cond, temp) ==
    [task_id |-> id, prompt |-> p, duration |-> d, audio_conditioning |-> cond,
     temperature |-> temp]

\* the path _process_generation writes for a task, named by the task's id
FilePath(id) == <<"generations", id>>

\* Path(f"temp_{audio_file.filename}"), for the one file name uploaded
TempPath == <<"temp", "upload">>

\* training_in_progress(): return self.is_training
training_in_progress == is_training

\* mutant: return self.training_status, the controller's own dict
get_status_NoCopy == [alias |-> TRUE, items |-> training_status]

\* get_status(): return self.training_status.copy().  The dict returned is an
\* object of its own (alias FALSE) holding the items the record has now
get_status == [alias |-> FALSE, items |-> training_status]

\* what a reader of a returned dict sees in it
SnapshotItems(d) == IF d.alias THEN training_status ELSE d.items

\* what the spec's Enqueue validation would accept
ValidRequest(p, d) == p # "" /\ d >= MinDuration /\ d <= MaxDuration

\* an UPDATE of one row; SQLAlchemy commits the changed columns only
Update(id, changes) ==
    [tasks EXCEPT ![id] = [f \in DOMAIN tasks[id] |->
        IF f \in DOMAIN changes THEN changes[f] ELSE tasks[id][f]]]

Record(id, st, pr) == [trace EXCEPT ![id] = Append(@, <<st, pr>>)]

(* ------------------------------- Init -------------------------------- *)
\* the generation service, its table and the event loop at start-up
GenInit ==
    /\ tasks = << >>
    /\ files = {}
    /\ queue = << >>
    /\ next_id = 0
    /\ is_processing = FALSE
    /\ w_pc = "idle"
    /\ w_task = NULL
    /\ h_pc = "idle"
    /\ h_task = NULL
    /\ response = [op |-> "none"]
    /\ enq_order = << >>
    /\ started = << >>
    /\ trace = [id \in TaskIds |-> << >>]
    /\ raised = [id \in TaskIds |-> "none"]

\* TrainingService.__init__
ControllerInit ==
    /\ is_training = FALSE
    /\ should_stop = FALSE
    /\ training_status = [status |-> "idle", progress |-> Frac(0, 1), epoch |-> 0,
                          total_epochs |-> 0, loss |-> NULL, message |-> <<"">>]
    /\ checkpoints = << >>
    /\ threads = << >>

\* a process started on a dataset directory without a manifest
Init == GenInit /\ ControllerInit /\ metadata = NULL

\* the manifest is a file: the process may also start on a directory where an
\* earlier process life has left one
TrainInit ==
    /\ GenInit
    /\ ControllerInit
    /\ metadata \in {NULL, [entries |-> <<1>>]}

(* --------------------------- HTTP handlers ---------------------------- *)
\* mutant: the descriptor goes to the head of the queue
queue_generation_Front(p, d, cond, temp) ==
    LET id == next_id + 1 IN
    /\ next_id' = id
    /\ tasks' = tasks @@ (id :> NewTask(p, d))
    /\ queue' = <<Descriptor(id, p, d, cond, temp)>> \o queue
    /\ enq_order' = Append(enq_order, id)
    /\ trace' = Record(id, "queued", P_QUEUED)

\* queue_generation: create the row, commit, put the descriptor, return
queue_generation(p, d, cond, temp) ==
    LET id == next_id + 1 IN
    /\ next_id' = id
    /\ tasks' = tasks @@ (id :> NewTask(p, d))
    /\ queue' = Append(queue, Descriptor(id, p, d, cond, temp))
    /\ enq_order' = Append(enq_order, id)
    /\ trace' = Record(id, "queued", P_QUEUED)

\* mutant: the descriptor is put on the queue before the row is committed
Enqueue_PutFirst ==
    /\ h_pc = "idle"
    /\ next_id < MaxTasks
    /\ \E r \in Requests, ok \in BOOLEAN :
          IF ok
          THEN /\ queue_generation(r.prompt, r.duration, r.audio_conditioning,
                                   DefaultTemperature)
               /\ response' = [op |-> "generate", prompt |-> r.prompt,
                               duration |-> r.duration, code |-> 200,
                               task_id |-> next_id']
          ELSE /\ next_id' = next_id + 1
               /\ queue' = Append(queue,
                                  Descriptor(next_id', r.prompt, r.duration,
                                             r.audio_conditioning,
                                             DefaultTemperature))
               /\ response' = [op |-> "generate", prompt |-> r.prompt,
                               duration |-> r.duration, code |-> 500,
                               task_id |-> 0]
               /\ UNCHANGED <<tasks, enq_order, trace>>
    /\ UNCHANGED <<files, is_processing, w_pc, w_task, h_pc, h_task, started,
                   raised>>
    /\ UNCHANGED train_vars

\* POST /api/generate and POST /api/generate/audio: queue_generation returns
\* the task, or its db.commit() raises before the descriptor is put and the
\* handler answers 500
Enqueue ==
    /\ h_pc = "idle"
    /\ next_id < MaxTasks
    /\ \E r \in Requests, ok \in BOOLEAN :
          IF ok
          THEN /\ queue_generation(r.prompt, r.duration, r.audio_conditioning,
                                   DefaultTemperature)
               /\ response' = [op |-> "generate", prompt |-> r.prompt,
                               duration |-> r.duration, code |-> 200,
                               task_id |-> next_id']
          ELSE /\ response' = [op |-> "generate", prompt |-> r.prompt,
                               duration |-> r.duration, code |-> 500,
                               task_id |-> 0]
               /\ UNCHANGED <<tasks, queue, next_id, enq_order, trace>>
    /\ UNCHANGED <<files, is_processing, w_pc, w_task, h_pc, h_task, started,
                   raised>>
    /\ UNCHANGED train_vars

\* POST /api/generate/audio, statement by statement: the upload is written to
\* the temp path and queue_generation is called with it; a commit that raises
\* is answered 500 from the except clause, past the clean-up
AudioEnqueue ==
    /\ h_pc = "idle"
    /\ next_id < MaxTasks
    /\ files' = files \cup {TempPath}
    /\ \E ok \in BOOLEAN :
          IF ok
          THEN /\ queue_generation("A", BatchDuration, TRUE, DefaultTemperature)
               /\ h_pc' = "unlink"
               /\ h_task' = [task_id |-> next_id']
               /\ UNCHANGED response
          ELSE /\ response' = [op |-> "generate", prompt |-> "A",
                               duration |-> BatchDuration, code |-> 500,
                               task_id |-> 0]
               /\ UNCHANGED <<tasks, queue, next_id, enq_order, trace, h_pc,
                              h_task>>
    /\ UNCHANGED <<is_processing, w_pc, w_task, started, raised>>
    /\ UNCHANGED train_vars

\* if temp_path.exists(): temp_path.unlink(); return {"task_id": task.id, ...}
AudioUnlink ==
    /\ h_pc = "unlink"
    /\ files' = files \ {TempPath}
    /\ response' = [op |-> "generate", prompt |-> "A",
                    duration |-> BatchDuration, code |-> 200,
                    task_id |-> h_task.task_id]
    /\ h_pc' = "idle"
    /\ h_task' = NULL
    /\ UNCHANGED <<tasks, queue, next_id, is_processing, w_pc, w_task,
                   enq_order, started, trace, raised>>
    /\ UNCHANGED train_vars

\* POST /api/batch/generate: `if not prompts` and the call of generate_batch
\* with task_ids = []
BatchStart ==
    /\ h_pc = "idle"
    /\ \E n \in 0..(MaxTasks - next_id) :
          IF n = 0
          THEN /\ response' = [op |-> "batch", code |-> 400]
               /\ UNCHANGED <<h_pc, h_task>>
          ELSE /\ h_pc' = "batch"
               /\ h_task' = [prompts |-> SubSeq(BatchPrompts, 1, n),
                             k |-> 1, task_ids |-> << >>]
               /\ UNCHANGED response
    /\ UNCHANGED <<tasks, files, queue, next_id, is_processing, w_pc, w_task,
                   enq_order, started, trace, raised>>
    /\ UNCHANGED train_vars

\* mutant: the ids are collected at the head of the list
BatchEnqueue_Prepend ==
    /\ h_pc = "batch"
    /\ h_task.k <= Len(h_task.prompts)
    /\ \E ok \in BOOLEAN :
          IF ok
          THEN /\ queue_generation(h_task.prompts[h_task.k], BatchDuration, FALSE,
                                  DefaultTemperature)
               /\ h_task' = [h_task EXCEPT !.k = @ + 1,
                                !.task_ids = <<next_id'>> \o @]
               /\ UNCHANGED <<h_pc, response>>
          ELSE /\ response' = [op |-> "batch", code |-> 500]
               /\ h_pc' = "idle"
               /\ h_task' = NULL
               /\ UNCHANGED <<tasks, queue, next_id, enq_order, trace>>
    /\ UNCHANGED <<files, is_processing, w_pc, w_task, started, raised>>
    /\ UNCHANGED train_vars

\* generate_batch, one turn of `for prompt in prompts`: queue_generation
\* returns the task, or its db.commit() raises and the handler answers 500
BatchEnqueue ==
    /\ h_pc = "batch"
    /\ h_task.k <= Len(h_task.prompts)
    /\ \E ok \in BOOLEAN :
          IF ok
          THEN /\ queue_generation(h_task.prompts[h_task.k], BatchDuration, FALSE,
                                  DefaultTemperature)
               /\ h_task' = [h_task EXCEPT !.k = @ + 1,
                                !.task_ids = Append(@, next_id')]
               /\ UNCHANGED <<h_pc, response>>
          ELSE /\ response' = [op |-> "batch", code |-> 500]
               /\ h_pc' = "idle"
               /\ h_task' = NULL
               /\ UNCHANGED <<tasks, queue, next_id, enq_order, trace>>
    /\ UNCHANGED <<files, is_processing, w_pc, w_task, started, raised>>
    /\ UNCHANGED train_vars

\* return {"status": "queued", "task_ids": task_ids, "count": len(task_ids)}
BatchReturn ==
    /\ h_pc = "batch"
    /\ h_task.k > Len(h_task.prompts)
    /\ response' = [op |-> "batch", code |-> 200,
                    task_ids |-> h_task.task_ids,
                    count |-> Len(h_task.task_ids)]
    /\ h_pc' = "idle"
    /\ h_task' = NULL
    /\ UNCHANGED <<tasks, files, queue, next_id, is_processing, w_pc, w_task,
                   enq_order, started, trace, raised>>
    /\ UNCHANGED train_vars

\* random.uniform(a, b): a + (b - a) * random.random()
uniform(a, b) == {a + ((b - a) * r) \div RandomSteps : r \in 0..RandomSteps}

\* POST /api/batch/variations: `if not prompt` and the call of
\* generate_variations with task_ids = []
VariationsStart ==
    /\ h_pc = "idle"
    /\ \E prompt \in {"", "A"}, n \in 0..(MaxTasks - next_id) :
          IF prompt = ""
          THEN /\ response' = [op |-> "variations", code |-> 400]
               /\ UNCHANGED <<h_pc, h_task>>
          ELSE /\ h_pc' = "variations"
               /\ h_task' = [base_prompt |-> prompt, num_variations |-> n,
                             i |-> 0, task_ids |-> << >>]
               /\ UNCHANGED response
    /\ UNCHANGED <<tasks, files, queue, next_id, is_processing, w_pc, w_task,
                   enq_order, started, trace, raised>>
    /\ UNCHANGED train_vars

\* mutant: the temperature is drawn from a range twice as wide
VariationsEnqueue_Wide ==
    /\ h_pc = "variations"
    /\ h_task.i < h_task.num_variations
    /\ \E ok \in BOOLEAN :
          IF ok
          THEN /\ \E temperature \in uniform(temperature_range[1],
                                             2 * temperature_range[2]
                                                - temperature_range[1]) :
                     queue_generation(h_task.base_prompt, BatchDuration, FALSE,
                                      temperature)
               /\ h_task' = [h_task EXCEPT !.i = @ + 1,
                                !.task_ids = Append(@, next_id')]
               /\ UNCHANGED <<h_pc, response>>
          ELSE /\ response' = [op |-> "variations", code |-> 500]
               /\ h_pc' = "idle"
               /\ h_task' = NULL
               /\ UNCHANGED <<tasks, queue, next_id, enq_order, trace>>
    /\ UNCHANGED <<files, is_processing, w_pc, w_task, started, raised>>
    /\ UNCHANGED train_vars

\* generate_variations, one turn of `for i in range(num_variations)`: the
\* temperature is drawn, and queue_generation returns the task or its
\* db.commit() raises and the handler answers 500
VariationsEnqueue ==
    /\ h_pc = "variations"
    /\ h_task.i < h_task.num_variations
    /\ \E ok \in BOOLEAN :
          IF ok
          THEN /\ \E temperature \in uniform(temperature_range[1],
                                             temperature_range[2]) :
                     queue_generation(h_task.base_prompt, BatchDuration, FALSE,
                                      temperature)
               /\ h_task' = [h_task EXCEPT !.i = @ + 1,
                                !.task_ids = Append(@, next_id')]
               /\ UNCHANGED <<h_pc, response>>
          ELSE /\ response' = [op |-> "variations", code |-> 500]
               /\ h_pc' = "idle"
               /\ h_task' = NULL
               /\ UNCHANGED <<tasks, queue, next_id, enq_order, trace>>
    /\ UNCHANGED <<files, is_processing, w_pc, w_task, started, raised>>
    /\ UNCHANGED train_vars

\* return {"status": "queued", "task_ids": task_ids, "count": len(task_ids)}
VariationsReturn ==
    /\ h_pc = "variations"
    /\ h_task.i >= h_task.num_variations
    /\ response' = [op |-> "variations", code |-> 200,
                    task_ids |-> h_task.task_ids,
                    count |-> Len(h_task.task_ids)]
    /\ h_pc' = "idle"
    /\ h_task' = NULL
    /\ UNCHANGED <<tasks, files, queue, next_id, is_processing, w_pc, w_task,
                   enq_order, started, trace, raised>>
    /\ UNCHANGED train_vars

\* GET /api/tasks/{task_id}: the row's fields, or the 404 when there is no row
GetTask ==
    /\ h_pc = "idle"
    /\ \E id \in TaskIds :
          response' = [op |-> "get", task_id |-> id,
                       code |-> IF Exists(id) THEN 200 ELSE 404]
    /\ UNCHANGED <<tasks, files, queue, next_id, is_processing, w_pc, w_task,
                   h_pc, h_task, enq_order, started, trace, raised>>
    /\ UNCHANGED train_vars

\* mutant: a delete of an id without a row is answered as done
DeleteQuery_Lenient ==
    /\ h_pc = "idle"
    /\ \E id \in TaskIds :
          IF Exists(id)
          THEN /\ h_task' = [task_id |-> id, file_path |-> tasks[id].file_path]
               /\ h_pc' = "remove"
               /\ UNCHANGED response
          ELSE /\ response' = [op |-> "delete", code |-> 200]
               /\ UNCHANGED <<h_pc, h_task>>
    /\ UNCHANGED <<tasks, files, queue, next_id, is_processing, w_pc, w_task,
                   enq_order, started, trace, raised>>
    /\ UNCHANGED train_vars

\* DELETE /api/tasks/{task_id}: the query, and the 404 when there is no row
DeleteQuery ==
    /\ h_pc = "idle"
    /\ \E id \in TaskIds :
          IF Exists(id)
          THEN /\ h_task' = [task_id |-> id, file_path |-> tasks[id].file_path]
               /\ h_pc' = "remove"
               /\ UNCHANGED response
          ELSE /\ response' = [op |-> "delete", code |-> 404]
               /\ UNCHANGED <<h_pc, h_task>>
    /\ UNCHANGED <<tasks, files, queue, next_id, is_processing, w_pc, w_task,
                   enq_order, started, trace, raised>>
    /\ UNCHANGED train_vars

\* mutant: the row is deleted and its file is left where it is
DeleteRemoveFile_Keep ==
    /\ h_pc = "remove"
    /\ h_pc' = "commit"
    /\ UNCHANGED <<tasks, files, queue, next_id, is_processing, w_pc, w_task,
                   h_task, response, enq_order, started, trace, raised>>
    /\ UNCHANGED train_vars

\* if task.file_path and os.path.exists(task.file_path): os.remove(...)
DeleteRemoveFile ==
    /\ h_pc = "remove"
    /\ files' = IF h_task.file_path # NULL /\ h_task.file_path \in files
                THEN files \ {h_task.file_path}
                ELSE files
    /\ h_pc' = "commit"
    /\ UNCHANGED <<tasks, queue, next_id, is_processing, w_pc, w_task, h_task,
                   response, enq_order, started, trace, raised>>
    /\ UNCHANGED train_vars

\* db.delete(task); db.commit(); return {"status": "deleted"}
DeleteCommit ==
    /\ h_pc = "commit"
    /\ tasks' = [id \in DOMAIN tasks \ {h_task.task_id} |-> tasks[id]]
    /\ response' = [op |-> "delete", code |-> 200]
    /\ h_pc' = "idle"
    /\ h_task' = NULL
    /\ UNCHANGED <<files, queue, next_id, is_processing, w_pc, w_task,
                   enq_order, started, trace, raised>>
    /\ UNCHANGED train_vars

(* ------------------------- generation worker -------------------------- *)
\* mutant: the worker takes the newest descriptor
WorkerDequeue_Lifo ==
    /\ w_pc = "idle"
    /\ queue # << >>
    /\ is_processing' = TRUE
    /\ w_task' = queue[Len(queue)]
    /\ queue' = SubSeq(queue, 1, Len(queue) - 1)
    /\ w_pc' = "lookup"
    /\ UNCHANGED <<tasks, files, next_id, h_pc, h_task, response, enq_order,
                   started, trace, raised>>
    /\ UNCHANGED train_vars

\* mutant: the worker reads the oldest descriptor and leaves it on the queue
WorkerDequeue_Peek ==
    /\ w_pc = "idle"
    /\ queue # << >>
    /\ is_processing' = TRUE
    /\ w_task' = Head(queue)
    /\ w_pc' = "lookup"
    /\ UNCHANGED <<tasks, files, queue, next_id, h_pc, h_task, response,
                   enq_order, started, trace, raised>>
    /\ UNCHANGED train_vars

\* worker(): if not queue.empty(): is_processing = True; task_data = get()
WorkerDequeue ==
    /\ w_pc = "idle"
    /\ queue # << >>
    /\ is_processing' = TRUE
    /\ w_task' = Head(queue)
    /\ queue' = Tail(queue)
    /\ w_pc' = "lookup"
    /\ UNCHANGED <<tasks, files, next_id, h_pc, h_task, response, enq_order,
                   started, trace, raised>>
    /\ UNCHANGED train_vars

\* the end of an iteration, by return or through the worker's own except
WorkerReturn ==
    /\ w_pc' = "idle"
    /\ w_task' = NULL
    /\ is_processing' = FALSE

\* a commit of the worker's session: the UPDATE of a row that is gone raises
\* (StaleDataError) and control passes to the except clause
WorkerCommit(changes, then) ==
    LET id == w_task.task_id IN
    IF Exists(id)
    THEN /\ tasks' = Update(id, changes)
         /\ trace' = Record(id, tasks'[id].status, tasks'[id].progress)
         /\ w_pc' = then
    ELSE /\ w_pc' = "except"
         /\ UNCHANGED <<tasks, trace>>

\* mutant: the row is not looked up before the processing starts
WorkerLookup_NoCheck ==
    /\ w_pc = "lookup"
    /\ w_pc' = "start"
    /\ UNCHANGED <<w_task, is_processing>>
    /\ UNCHANGED <<tasks, files, queue, next_id, h_pc, h_task, response,
                   enq_order, started, trace, raised>>
    /\ UNCHANGED train_vars

\* _process_generation: the query, and the return when there is no row
WorkerLookup ==
    /\ w_pc = "lookup"
    /\ IF Exists(w_task.task_id)
       THEN /\ w_pc' = "start"
            /\ UNCHANGED <<w_task, is_processing>>
       ELSE WorkerReturn
    /\ UNCHANGED <<tasks, files, queue, next_id, h_pc, h_task, response,
                   enq_order, started, trace, raised>>
    /\ UNCHANGED train_vars

\* task.status = "processing"; task.progress = 0.1; db.commit()
WorkerMarkProcessing ==
    /\ w_pc = "start"
    /\ WorkerCommit([status |-> "processing", progress |-> P_STARTED], "params")
    /\ started' = IF Exists(w_task.task_id)
                  THEN Append(started, w_task.task_id) ELSE started
    /\ UNCHANGED <<files, queue, next_id, is_processing, w_task, h_pc, h_task,
                   response, enq_order, raised>>
    /\ UNCHANGED train_vars

\* a step of the try block raises: remembered, and on to the except clause
WorkerRaise(step) ==
    /\ raised' = [raised EXCEPT ![w_task.task_id] = step]
    /\ w_pc' = "except"
    /\ UNCHANGED <<tasks, trace>>

\* mutant: progress 0.3 is assigned and never committed
WorkerApplyParams_NoCommit ==
    /\ w_pc = "params"
    /\ \E ok \in BOOLEAN :
          IF ok
          THEN /\ w_pc' = "generate"
               /\ UNCHANGED <<tasks, trace, raised>>
          ELSE WorkerRaise("params")
    /\ UNCHANGED <<files, queue, next_id, is_processing, w_task, h_pc, h_task,
                   response, enq_order, started>>
    /\ UNCHANGED train_vars

\* self.model.set_generation_params(...); task.progress = 0.3; db.commit()
WorkerApplyParams ==
    /\ w_pc = "params"
    /\ \E ok \in BOOLEAN :
          IF ok
          THEN /\ WorkerCommit([progress |-> P_PARAMS], "generate")
               /\ UNCHANGED raised
          ELSE WorkerRaise("params")
    /\ UNCHANGED <<files, queue, next_id, is_processing, w_task, h_pc, h_task,
                   response, enq_order, started>>
    /\ UNCHANGED train_vars

\* mutant: the generation is reported as half of the work
WorkerGenerate_Half ==
    /\ w_pc = "generate"
    /\ \E out \in IF w_task.audio_conditioning
                   THEN (IF TempPath \in files THEN {"ok", "generate"} ELSE {})
                           \cup {"conditioning"}
                   ELSE {"ok", "generate"} :
          IF out = "ok"
          THEN /\ WorkerCommit([progress |-> 5], "write")
               /\ UNCHANGED raised
          ELSE WorkerRaise(out)
    /\ UNCHANGED <<files, queue, next_id, is_processing, w_task, h_pc, h_task,
                   response, enq_order, started>>
    /\ UNCHANGED train_vars

\* audio_read + generate_with_chroma, or generate; task.progress = 0.8; commit.
\* audio_read raises when the conditioning file is not there
WorkerGenerate ==
    /\ w_pc = "generate"
    /\ \E out \in IF w_task.audio_conditioning
                   THEN (IF TempPath \in files THEN {"ok", "generate"} ELSE {})
                           \cup {"conditioning"}
                   ELSE {"ok", "generate"} :
          IF out = "ok"
          THEN /\ WorkerCommit([progress |-> P_GENERATED], "write")
               /\ UNCHANGED raised
          ELSE WorkerRaise(out)
    /\ UNCHANGED <<files, queue, next_id, is_processing, w_task, h_pc, h_task,
                   response, enq_order, started>>
    /\ UNCHANGED train_vars

\* filename = f"generation_{task.id}"; audio_write(...).  The row was expired
\* by the last commit, so reading task.id reloads it and raises
\* (ObjectDeletedError) when the row is gone; a write that raises may or may
\* not leave a file behind
WorkerWrite ==
    /\ w_pc = "write"
    /\ IF ~Exists(w_task.task_id)
       THEN /\ w_pc' = "except"
            /\ UNCHANGED <<tasks, trace, raised, files>>
       ELSE \E ok \in BOOLEAN :
          IF ok
          THEN /\ files' = files \cup {FilePath(w_task.task_id)}
               /\ w_pc' = "complete"
               /\ UNCHANGED <<tasks, trace, raised>>
          ELSE /\ WorkerRaise("write")
               /\ files' \in {files, files \cup {FilePath(w_task.task_id)}}
    /\ UNCHANGED <<queue, next_id, is_processing, w_task, h_pc, h_task,
                   response, enq_order, started>>
    /\ UNCHANGED train_vars

\* mutant: the final commit leaves file_path out
WorkerComplete_NoPath ==
    /\ w_pc = "complete"
    /\ LET id == w_task.task_id IN
       IF Exists(id)
       THEN /\ tasks' = Update(id, [status |-> "completed", progress |-> P_DONE])
            /\ trace' = Record(id, "completed", P_DONE)
            /\ WorkerReturn
       ELSE /\ w_pc' = "except"
            /\ UNCHANGED <<tasks, trace, w_task, is_processing>>
    /\ UNCHANGED <<files, queue, next_id, h_pc, h_task, response, enq_order,
                   started, raised>>
    /\ UNCHANGED train_vars

\* task.file_path = ...; task.status = "completed"; task.progress = 1.0; commit
WorkerComplete ==
    /\ w_pc = "complete"
    /\ LET id == w_task.task_id IN
       IF Exists(id)
       THEN /\ tasks' = Update(id, [file_path |-> FilePath(id),
                                    status |-> "completed",
                                    progress |-> P_DONE])
            /\ trace' = Record(id, "completed", P_DONE)
            /\ WorkerReturn
       ELSE /\ w_pc' = "except"
            /\ UNCHANGED <<tasks, trace, w_task, is_processing>>
    /\ UNCHANGED <<files, queue, next_id, h_pc, h_task, response, enq_order,
                   started, raised>>
    /\ UNCHANGED train_vars

\* mutant: the except clause swallows the error and writes nothing
WorkerExcept_Pass ==
    /\ w_pc = "except"
    /\ WorkerReturn
    /\ UNCHANGED <<tasks, trace, files, queue, next_id, h_pc, h_task, response,
                   enq_order, started, raised>>
    /\ UNCHANGED train_vars

\* mutant: the except clause marks the row failed and keeps its progress
WorkerExcept_KeepProgress ==
    /\ w_pc = "except"
    /\ LET id == w_task.task_id IN
       IF Exists(id)
       THEN /\ tasks' = Update(id, [status |-> "failed"])
            /\ trace' = Record(id, "failed", tasks[id].progress)
       ELSE UNCHANGED <<tasks, trace>>
    /\ WorkerReturn
    /\ UNCHANGED <<files, queue, next_id, h_pc, h_task, response, enq_order,
                   started, raised>>
    /\ UNCHANGED train_vars

\* mutant: worker() has no except clause of its own, so the error raised by
\* the commit on a deleted row ends the thread
WorkerExcept_Dies ==
    /\ w_pc = "except"
    /\ LET id == w_task.task_id IN
       IF Exists(id)
       THEN /\ tasks' = Update(id, [status |-> "failed", progress |-> P_QUEUED])
            /\ trace' = Record(id, "failed", P_QUEUED)
            /\ WorkerReturn
       ELSE /\ w_pc' = "dead"
            /\ UNCHANGED <<tasks, trace, w_task, is_processing>>
    /\ UNCHANGED <<files, queue, next_id, h_pc, h_task, response, enq_order,
                   started, raised>>
    /\ UNCHANGED train_vars

\* mutant: the failure is written with an upsert, which brings a deleted row back
WorkerExcept_Upsert ==
    /\ w_pc = "except"
    /\ LET id == w_task.task_id IN
       /\ tasks' = IF Exists(id)
                   THEN Update(id, [status |-> "failed", progress |-> P_QUEUED])
                   ELSE (id :> [NewTask(w_task.prompt, w_task.duration)
                                  EXCEPT !.status = "failed"]) @@ tasks
       /\ trace' = Record(id, "failed", P_QUEUED)
    /\ WorkerReturn
    /\ UNCHANGED <<files, queue, next_id, h_pc, h_task, response, enq_order,
                   started, raised>>
    /\ UNCHANGED train_vars

\* except: task.status = "failed"; task.progress = 0.0; db.commit(); when the
\* row is gone this commit raises too and worker()'s except clause takes over
WorkerExcept ==
    /\ w_pc = "except"
    /\ LET id == w_task.task_id IN
       IF Exists(id)
       THEN /\ tasks' = Update(id, [status |-> "failed", progress |-> P_QUEUED])
            /\ trace' = Record(id, "failed", P_QUEUED)
       ELSE UNCHANGED <<tasks, trace>>
    /\ WorkerReturn
    /\ UNCHANGED <<files, queue, next_id, h_pc, h_task, response, enq_order,
                   started, raised>>
    /\ UNCHANGED train_vars

Worker ==
    \/ WorkerDequeue
    \/ WorkerLookup
    \/ WorkerMarkProcessing
    \/ WorkerApplyParams
    \/ WorkerGenerate
    \/ WorkerWrite
    \/ WorkerComplete
    \/ WorkerExcept

(* ------------------------- training: handlers ------------------------- *)
\* a background task added by a handler: it runs on a thread of its own
NewThread(fn, epochs) ==
    [fn |-> fn, pc |-> IF fn = "start_training" THEN "t98" ELSE "p33",
     epochs |-> epochs, i |-> 0, n |-> 0, processed |-> << >>,
     outcome |-> "none", since_stop |-> -1]

\* the positions of start_training inside `for epoch in range(epochs)`
EpochLoop == {"t127", "t130", "t131", "t132"}
InEpochLoop(t) == threads[t].fn = "start_training" /\ threads[t].pc \in EpochLoop

\* POST /api/train/start: the HTTPException raised for a run in progress is
\* caught by the handler's own except clause and answered as a 500
StartTraining ==
    /\ h_pc = "idle"
    /\ IF training_in_progress
       THEN /\ response' = [op |-> "train_start", code |-> 500]
            /\ UNCHANGED threads
       ELSE /\ Len(threads) < MaxRuns
            /\ \E epochs \in 1..MaxEpochs :
                  threads' = Append(threads, NewThread("start_training", epochs))
            /\ response' = [op |-> "train_start", code |-> 200]
    /\ UNCHANGED <<h_pc, h_task, is_training, should_stop, training_status,
                   metadata, checkpoints>>
    /\ UNCHANGED <<tasks, files, queue, next_id, is_processing, w_pc, w_task,
                   enq_order, started, trace, raised>>

\* POST /api/train/process-dataset
ProcessDataset ==
    /\ h_pc = "idle"
    /\ Len(threads) < MaxRuns
    /\ threads' = Append(threads, NewThread("process_dataset", 0))
    /\ response' = [op |-> "process_dataset", code |-> 200]
    /\ UNCHANGED <<h_pc, h_task, is_training, should_stop, training_status,
                   metadata, checkpoints>>
    /\ UNCHANGED <<tasks, files, queue, next_id, is_processing, w_pc, w_task,
                   enq_order, started, trace, raised>>

\* GET /api/train/status
GetStatus ==
    /\ h_pc = "idle"
    /\ response' = [op |-> "status", code |-> 200, body |-> get_status]
    /\ UNCHANGED <<h_pc, h_task, is_training, should_stop, training_status,
                   metadata, checkpoints, threads>>
    /\ UNCHANGED <<tasks, files, queue, next_id, is_processing, w_pc, w_task,
                   enq_order, started, trace, raised>>

\* mutant: a stop that also empties the generation queue
StopSetFlag_Drain ==
    /\ h_pc = "idle"
    /\ should_stop' = TRUE
    /\ queue' = << >>
    /\ h_pc' = "stop178"
    /\ UNCHANGED <<h_task, response, is_training, training_status, metadata,
                   checkpoints, threads>>
    /\ UNCHANGED <<tasks, files, next_id, is_processing, w_pc, w_task,
                   enq_order, started, trace, raised>>

\* POST /api/train/stop, stop_training: self.should_stop = True
StopSetFlag ==
    /\ h_pc = "idle"
    /\ should_stop' = TRUE
    /\ h_pc' = "stop178"
    /\ UNCHANGED <<h_task, response, is_training, training_status, metadata,
                   checkpoints, threads>>
    /\ UNCHANGED <<tasks, files, queue, next_id, is_processing, w_pc, w_task,
                   enq_order, started, trace, raised>>

\* the same statement, with history: every run that is in its epoch loop at
\* the call starts to count the epochs it begins from now on (since_stop)
StopSetFlagInLoop ==
    /\ h_pc = "idle"
    /\ should_stop' = TRUE
    /\ h_pc' = "stop178"
    /\ threads' = [t \in DOMAIN threads |->
                     IF InEpochLoop(t) /\ threads[t].since_stop < 0
                     THEN [threads[t] EXCEPT !.since_stop = 0]
                     ELSE threads[t]]
    /\ UNCHANGED <<h_task, response, is_training, training_status, metadata,
                   checkpoints>>
    /\ UNCHANGED <<tasks, files, queue, next_id, is_processing, w_pc, w_task,
                   enq_order, started, trace, raised>>

\* mutant: a stop that also puts the status back to idle
StopSetMessage_Idle ==
    /\ h_pc = "stop178"
    /\ training_status' =
          [training_status EXCEPT !.message = <<"Stopping training...">>,
                                  !.status = "idle"]
    /\ response' = [op |-> "train_stop", code |-> 200]
    /\ h_pc' = "idle"
    /\ UNCHANGED <<h_task, is_training, should_stop, metadata, checkpoints,
                   threads>>
    /\ UNCHANGED <<tasks, files, queue, next_id, is_processing, w_pc, w_task,
                   enq_order, started, trace, raised>>

\* stop_training: self.training_status["message"] = "Stopping training..."
StopSetMessage ==
    /\ h_pc = "stop178"
    /\ training_status' =
          [training_status EXCEPT !.message = <<"Stopping training...">>]
    /\ response' = [op |-> "train_stop", code |-> 200]
    /\ h_pc' = "idle"
    /\ UNCHANGED <<h_task, is_training, should_stop, metadata, checkpoints,
                   threads>>
    /\ UNCHANGED <<tasks, files, queue, next_id, is_processing, w_pc, w_task,
                   enq_order, started, trace, raised>>

(* ---------------------- training: start_training ---------------------- *)
Goto(t, pc) == threads' = [threads EXCEPT ![t].pc = pc]

\* the thread's function has returned; its locals are gone.  outcome is
\* history: the return statement the function left by
Finish(t, outcome) ==
    threads' = [threads EXCEPT ![t].pc = "done", ![t].epochs = 0, ![t].i = 0,
                                ![t].n = 0, ![t].processed = << >>,
                                ![t].outcome = outcome, ![t].since_stop = -1]

At(t, pcs) == threads[t].pc \in pcs

HttpGenUnchanged ==
    /\ UNCHANGED <<h_pc, h_task, response>>
    /\ UNCHANGED <<tasks, files, queue, next_id, is_processing, w_pc, w_task,
                   enq_order, started, trace, raised>>

\* if self.is_training: return
TrainCheckFlag(t) ==
    /\ At(t, {"t98"})
    /\ IF is_training THEN Finish(t, "skipped") ELSE Goto(t, "t101")
    /\ UNCHANGED <<is_training, should_stop, training_status, metadata,
                   checkpoints>>
    /\ HttpGenUnchanged

\* self.is_training = True
TrainSetFlag(t) ==
    /\ At(t, {"t101"})
    /\ is_training' = TRUE
    /\ Goto(t, "t102")
    /\ UNCHANGED <<should_stop, training_status, metadata, checkpoints>>
    /\ HttpGenUnchanged

\* self.should_stop = False
TrainClearStop(t) ==
    /\ At(t, {"t102"})
    /\ should_stop' = FALSE
    /\ Goto(t, "t103")
    /\ UNCHANGED <<is_training, training_status, metadata, checkpoints>>
    /\ HttpGenUnchanged

\* the five assignments to self.training_status, one statement a step
TrainInitStatus(t) ==
    /\ At(t, {"t103", "t104", "t105", "t106", "t107"})
    /\ LET pc == threads[t].pc IN
       /\ training_status' =
            CASE pc = "t103" -> [training_status EXCEPT !.status = "training"]
              [] pc = "t104" -> [training_status EXCEPT !.progress = Frac(0, 1)]
              [] pc = "t105" -> [training_status EXCEPT !.epoch = 0]
              [] pc = "t106" ->
                   [training_status EXCEPT !.total_epochs = threads[t].epochs]
              [] pc = "t107" ->
                   [training_status EXCEPT !.message = <<"Starting training...">>]
       /\ Goto(t, CASE pc = "t103" -> "t104" [] pc = "t104" -> "t105"
                    [] pc = "t105" -> "t106" [] pc = "t106" -> "t107"
                    [] pc = "t107" -> "t111")
    /\ UNCHANGED <<is_training, should_stop, metadata, checkpoints>>
    /\ HttpGenUnchanged

\* model = MusicGen.get_pretrained(...): returns or raises
TrainLoadModel(t) ==
    /\ At(t, {"t111"})
    /\ \E ok \in BOOLEAN : Goto(t, IF ok THEN "t115" ELSE "t171")
    /\ UNCHANGED <<is_training, should_stop, training_status, metadata,
                   checkpoints>>
    /\ HttpGenUnchanged

\* if not metadata_path.exists(): ...; dataset = json.load(f)
TrainLoadDataset(t) ==
    /\ At(t, {"t115"})
    /\ IF metadata = NULL
       THEN Goto(t, "t116")
       ELSE threads' = [threads EXCEPT ![t].pc = "t127", ![t].i = 0]
    /\ UNCHANGED <<is_training, should_stop, training_status, metadata,
                   checkpoints>>
    /\ HttpGenUnchanged

\* mutant: the return without a manifest leaves the flag set
TrainNotReady_KeepFlag(t) ==
    /\ At(t, {"t116", "t117", "t118"})
    /\ LET pc == threads[t].pc IN
       /\ training_status' =
            CASE pc = "t116" -> [training_status EXCEPT !.status = "failed"]
              [] pc = "t117" ->
                   [training_status EXCEPT !.message = <<"Dataset not processed">>]
              [] pc = "t118" -> training_status
       /\ IF pc = "t118" THEN Finish(t, "not_ready")
          ELSE Goto(t, IF pc = "t116" THEN "t117" ELSE "t118")
    /\ UNCHANGED <<is_training, should_stop, metadata, checkpoints>>
    /\ HttpGenUnchanged

\* status = "failed"; message = "Dataset not processed..."; is_training = False
TrainNotReady(t) ==
    /\ At(t, {"t116", "t117", "t118"})
    /\ LET pc == threads[t].pc IN
       /\ training_status' =
            CASE pc = "t116" -> [training_status EXCEPT !.status = "failed"]
              [] pc = "t117" ->
                   [training_status EXCEPT !.message = <<"Dataset not processed">>]
              [] pc = "t118" -> training_status
       /\ is_training' = IF pc = "t118" THEN FALSE ELSE is_training
       /\ IF pc = "t118" THEN Finish(t, "not_ready")
          ELSE Goto(t, IF pc = "t116" THEN "t117" ELSE "t118")
    /\ UNCHANGED <<should_stop, metadata, checkpoints>>
    /\ HttpGenUnchanged

\* for epoch in range(epochs): if self.should_stop: break
TrainLoopHead(t) ==
    /\ At(t, {"t127"})
    /\ Goto(t, IF threads[t].i >= threads[t].epochs \/ should_stop
               THEN "t146" ELSE "t130")
    /\ UNCHANGED <<is_training, should_stop, training_status, metadata,
                   checkpoints>>
    /\ HttpGenUnchanged

\* mutant: the epoch is reported by its index in range(epochs)
TrainEpoch_ZeroBased(t) ==
    /\ At(t, {"t130", "t131", "t132"})
    /\ LET pc == threads[t].pc
           e == threads[t].i
           n == threads[t].epochs IN
       /\ training_status' =
            CASE pc = "t130" -> [training_status EXCEPT !.epoch = e]
              [] pc = "t131" -> [training_status EXCEPT !.progress = Frac(e, n)]
              [] pc = "t132" ->
                   [training_status EXCEPT !.message = <<"Training epoch", e, n>>]
       /\ threads' = CASE pc = "t130" ->
                            [threads EXCEPT ![t].pc = "t131",
                                ![t].since_stop = IF @ < 0 THEN @ ELSE @ + 1]
                       [] pc = "t131" -> [threads EXCEPT ![t].pc = "t132"]
                       [] pc = "t132" ->
                            [threads EXCEPT ![t].pc = "t127", ![t].i = e + 1]
    /\ UNCHANGED <<is_training, should_stop, metadata, checkpoints>>
    /\ HttpGenUnchanged

\* epoch, progress and message of the epoch, then the training step
TrainEpoch(t) ==
    /\ At(t, {"t130", "t131", "t132"})
    /\ LET pc == threads[t].pc
           e == threads[t].i + 1
           n == threads[t].epochs IN
       /\ training_status' =
            CASE pc = "t130" -> [training_status EXCEPT !.epoch = e]
              [] pc = "t131" -> [training_status EXCEPT !.progress = Frac(e, n)]
              [] pc = "t132" ->
                   [training_status EXCEPT !.message = <<"Training epoch", e, n>>]
       /\ threads' = CASE pc = "t130" ->
                            [threads EXCEPT ![t].pc = "t131",
                                ![t].since_stop = IF @ < 0 THEN @ ELSE @ + 1]
                       [] pc = "t131" -> [threads EXCEPT ![t].pc = "t132"]
                       [] pc = "t132" ->
                            [threads EXCEPT ![t].pc = "t127", ![t].i = e]
    /\ UNCHANGED <<is_training, should_stop, metadata, checkpoints>>
    /\ HttpGenUnchanged

\* mutant: the row is written before the statement that raises
TrainSaveCheckpoint_RowThenRaise(t) ==
    /\ At(t, {"t146"})
    /\ \E ok \in BOOLEAN :
          /\ checkpoints' = Append(checkpoints,
                [id |-> Len(checkpoints) + 1, thread |-> t,
                 epochs |-> threads[t].epochs, is_base |-> FALSE])
          /\ Goto(t, IF ok THEN "t165" ELSE "t171")
    /\ UNCHANGED <<is_training, should_stop, training_status, metadata>>
    /\ HttpGenUnchanged

\* the checkpoint directory and the ModelCheckpoint row: db.commit() returns
\* or raises
TrainSaveCheckpoint(t) ==
    /\ At(t, {"t146"})
    /\ \E ok \in BOOLEAN :
          IF ok
          THEN /\ checkpoints' = Append(checkpoints,
                     [id |-> Len(checkpoints) + 1, thread |-> t,
                      epochs |-> threads[t].epochs, is_base |-> FALSE])
               /\ Goto(t, "t165")
          ELSE /\ Goto(t, "t171")
               /\ UNCHANGED checkpoints
    /\ UNCHANGED <<is_training, should_stop, training_status, metadata>>
    /\ HttpGenUnchanged

\* status = "completed"; progress = 1.0; message = ...; is_training = False
TrainComplete(t) ==
    /\ At(t, {"t165", "t166", "t167", "t168"})
    /\ LET pc == threads[t].pc IN
       /\ training_status' =
            CASE pc = "t165" -> [training_status EXCEPT !.status = "completed"]
              [] pc = "t166" -> [training_status EXCEPT !.progress = Frac(1, 1)]
              [] pc = "t167" ->
                   [training_status EXCEPT !.message = <<"Training completed">>]
              [] pc = "t168" -> training_status
       /\ is_training' = IF pc = "t168" THEN FALSE ELSE is_training
       /\ IF pc = "t168" THEN Finish(t, "completed")
          ELSE Goto(t, CASE pc = "t165" -> "t166" [] pc = "t166" -> "t167"
                         [] pc = "t167" -> "t168")
    /\ UNCHANGED <<should_stop, metadata, checkpoints>>
    /\ HttpGenUnchanged

\* mutant: the except clause leaves the flag set
TrainExcept_KeepFlag(t) ==
    /\ At(t, {"t171", "t172", "t173"})
    /\ LET pc == threads[t].pc IN
       /\ training_status' =
            CASE pc = "t171" -> [training_status EXCEPT !.status = "failed"]
              [] pc = "t172" ->
                   [training_status EXCEPT !.message = <<"Training error">>]
              [] pc = "t173" -> training_status
       /\ IF pc = "t173" THEN Finish(t, "failed")
          ELSE Goto(t, IF pc = "t171" THEN "t172" ELSE "t173")
    /\ UNCHANGED <<is_training, should_stop, metadata, checkpoints>>
    /\ HttpGenUnchanged

\* except: status = "failed"; message = "Training error: ..."; is_training = False
TrainExcept(t) ==
    /\ At(t, {"t171", "t172", "t173"})
    /\ LET pc == threads[t].pc IN
       /\ training_status' =
            CASE pc = "t171" -> [training_status EXCEPT !.status = "failed"]
              [] pc = "t172" ->
                   [training_status EXCEPT !.message = <<"Training error">>]
              [] pc = "t173" -> training_status
       /\ is_training' = IF pc = "t173" THEN FALSE ELSE is_training
       /\ IF pc = "t173" THEN Finish(t, "failed")
          ELSE Goto(t, IF pc = "t171" THEN "t172" ELSE "t173")
    /\ UNCHANGED <<should_stop, metadata, checkpoints>>
    /\ HttpGenUnchanged

(* ---------------------- training: process_dataset --------------------- *)
\* status = "processing_dataset"; progress = 0.0; message = ...
DatasetInitStatus(t) ==
    /\ At(t, {"p33", "p34", "p35"})
    /\ LET pc == threads[t].pc IN
       /\ training_status' =
            CASE pc = "p33" ->
                   [training_status EXCEPT !.status = "processing_dataset"]
              [] pc = "p34" -> [training_status EXCEPT !.progress = Frac(0, 1)]
              [] pc = "p35" ->
                   [training_status EXCEPT !.message = <<"Processing dataset...">>]
       /\ Goto(t, CASE pc = "p33" -> "p34" [] pc = "p34" -> "p35"
                    [] pc = "p35" -> "p38")
    /\ UNCHANGED <<is_training, should_stop, metadata, checkpoints>>
    /\ HttpGenUnchanged

\* audio_files = glob("*.wav") + glob("*.mp3"): what the directory holds now
DatasetGlob(t) ==
    /\ At(t, {"p38"})
    /\ \E n \in 0..MaxFiles :
          threads' = [threads EXCEPT ![t].n = n, ![t].i = 0,
                         ![t].processed = << >>,
                         ![t].pc = IF n = 0 THEN "p41" ELSE "p48"]
    /\ UNCHANGED <<is_training, should_stop, training_status, metadata,
                   checkpoints>>
    /\ HttpGenUnchanged

\* mutant: an empty directory is taken as nothing to do
DatasetNoFiles_Idle(t) ==
    /\ At(t, {"p41", "p42"})
    /\ IF threads[t].pc = "p41"
       THEN /\ training_status' = [training_status EXCEPT !.status = "idle"]
            /\ Goto(t, "p42")
       ELSE /\ training_status' =
                 [training_status EXCEPT !.message = <<"No audio files found">>]
            /\ Finish(t, "no_files")
    /\ UNCHANGED <<is_training, should_stop, metadata, checkpoints>>
    /\ HttpGenUnchanged

\* if not audio_files: status = "failed"; message = "No audio files..."; return
DatasetNoFiles(t) ==
    /\ At(t, {"p41", "p42"})
    /\ IF threads[t].pc = "p41"
       THEN /\ training_status' = [training_status EXCEPT !.status = "failed"]
            /\ Goto(t, "p42")
       ELSE /\ training_status' =
                 [training_status EXCEPT !.message = <<"No audio files found">>]
            /\ Finish(t, "no_files")
    /\ UNCHANGED <<is_training, should_stop, metadata, checkpoints>>
    /\ HttpGenUnchanged

\* for i, audio_file in enumerate(audio_files): if self.should_stop: break
DatasetLoopHead(t) ==
    /\ At(t, {"p48"})
    /\ Goto(t, IF threads[t].i >= threads[t].n \/ should_stop
               THEN "p66" ELSE "p52")
    /\ UNCHANGED <<is_training, should_stop, training_status, metadata,
                   checkpoints>>
    /\ HttpGenUnchanged

\* mutant: the files count for the whole of the progress, not for half
DatasetFile_FullScale(t) ==
    /\ At(t, {"p52", "p62", "p63"})
    /\ LET pc == threads[t].pc
           k == threads[t].i + 1
           n == threads[t].n IN
       /\ training_status' =
            CASE pc = "p52" -> training_status
              [] pc = "p62" -> [training_status EXCEPT !.progress = Frac(k, n)]
              [] pc = "p63" ->
                   [training_status EXCEPT !.message = <<"Processed", k, n>>]
       /\ threads' =
            CASE pc = "p52" ->
                   [threads EXCEPT ![t].pc = "p62",
                                   ![t].processed = Append(@, k)]
              [] pc = "p62" -> [threads EXCEPT ![t].pc = "p63"]
              [] pc = "p63" -> [threads EXCEPT ![t].pc = "p48", ![t].i = k]
    /\ UNCHANGED <<is_training, should_stop, metadata, checkpoints>>
    /\ HttpGenUnchanged

\* one file: its chunk and caption, then progress and message
DatasetFile(t) ==
    /\ At(t, {"p52", "p62", "p63"})
    /\ LET pc == threads[t].pc
           k == threads[t].i + 1
           n == threads[t].n IN
       /\ training_status' =
            CASE pc = "p52" -> training_status
              [] pc = "p62" -> [training_status EXCEPT !.progress = Frac(k, 2 * n)]
              [] pc = "p63" ->
                   [training_status EXCEPT !.message = <<"Processed", k, n>>]
       /\ threads' =
            CASE pc = "p52" ->
                   [threads EXCEPT ![t].pc = "p62",
                                   ![t].processed = Append(@, k)]
              [] pc = "p62" -> [threads EXCEPT ![t].pc = "p63"]
              [] pc = "p63" -> [threads EXCEPT ![t].pc = "p48", ![t].i = k]
    /\ UNCHANGED <<is_training, should_stop, metadata, checkpoints>>
    /\ HttpGenUnchanged

\* self._save_dataset_metadata(processed_files): open/json.dump return or raise
DatasetSave(t) ==
    /\ At(t, {"p66"})
    /\ \E ok \in BOOLEAN :
          IF ok
          THEN /\ metadata' = [entries |-> threads[t].processed]
               /\ Goto(t, "p68")
          ELSE /\ Goto(t, "p73")
               /\ UNCHANGED metadata
    /\ UNCHANGED <<is_training, should_stop, training_status, checkpoints>>
    /\ HttpGenUnchanged

\* status = "idle"; progress = 1.0; message = "Dataset processed: k chunks"
DatasetComplete(t) ==
    /\ At(t, {"p68", "p69", "p70"})
    /\ LET pc == threads[t].pc IN
       /\ training_status' =
            CASE pc = "p68" -> [training_status EXCEPT !.status = "idle"]
              [] pc = "p69" -> [training_status EXCEPT !.progress = Frac(1, 1)]
              [] pc = "p70" ->
                   [training_status EXCEPT !.message =
                       <<"Dataset processed", Len(threads[t].processed)>>]
       /\ IF pc = "p70" THEN Finish(t, "processed")
          ELSE Goto(t, IF pc = "p68" THEN "p69" ELSE "p70")
    /\ UNCHANGED <<is_training, should_stop, metadata, checkpoints>>
    /\ HttpGenUnchanged

\* except: status = "failed"; message = "Error processing dataset: ..."
DatasetExcept(t) ==
    /\ At(t, {"p73", "p74"})
    /\ IF threads[t].pc = "p73"
       THEN /\ training_status' = [training_status EXCEPT !.status = "failed"]
            /\ Goto(t, "p74")
       ELSE /\ training_status' =
                 [training_status EXCEPT !.message = <<"Error processing dataset">>]
            /\ Finish(t, "failed")
    /\ UNCHANGED <<is_training, should_stop, metadata, checkpoints>>
    /\ HttpGenUnchanged

TrainThread(t) ==
    \/ TrainCheckFlag(t)
    \/ TrainSetFlag(t)
    \/ TrainClearStop(t)
    \/ TrainInitStatus(t)
    \/ TrainLoadModel(t)
    \/ TrainLoadDataset(t)
    \/ TrainNotReady(t)
    \/ TrainLoopHead(t)
    \/ TrainEpoch(t)
    \/ TrainSaveCheckpoint(t)
    \/ TrainComplete(t)
    \/ TrainExcept(t)

DatasetThread(t) ==
    \/ DatasetInitStatus(t)
    \/ DatasetGlob(t)
    \/ DatasetNoFiles(t)
    \/ DatasetLoopHead(t)
    \/ DatasetFile(t)
    \/ DatasetSave(t)
    \/ DatasetComplete(t)
    \/ DatasetExcept(t)

Next ==
    \/ Enqueue
    \/ DeleteQuery
    \/ DeleteRemoveFile
    \/ DeleteCommit
    \/ Worker

Spec == Init /\ [][Next]_vars

\* the generation service with the batch endpoint
BatchNext ==
    \/ Next
    \/ BatchStart
    \/ BatchEnqueue
    \/ BatchReturn

BatchSpec == Init /\ [][BatchNext]_vars

\* the generation service with the variations endpoint
VariationsNext ==
    \/ Next
    \/ VariationsStart
    \/ VariationsEnqueue
    \/ VariationsReturn

VariationsSpec == Init /\ [][VariationsNext]_vars

\* mutant: at start-up the queue is filled again from the rows still Queued
Restart_Requeue ==
    /\ queue' = [i \in 1..Len(SelectSeq([k \in 1..next_id |-> k], StillQueued)) |->
                   LET id == SelectSeq([k \in 1..next_id |-> k], StillQueued)[i] IN
                   Descriptor(id, tasks[id].prompt, tasks[id].duration, FALSE,
                              DefaultTemperature)]
    /\ is_processing' = FALSE
    /\ w_pc' = "idle"
    /\ w_task' = NULL
    /\ h_pc' = "idle"
    /\ h_task' = NULL
    /\ UNCHANGED <<tasks, files, next_id, response, enq_order, started, trace,
                   raised>>
    /\ UNCHANGED train_vars

\* the process is stopped and started again: MusicGenService.__init__ makes a
\* new empty Queue and a new worker thread; the rows and the files stay
Restart ==
    /\ queue' = << >>
    /\ is_processing' = FALSE
    /\ w_pc' = "idle"
    /\ w_task' = NULL
    /\ h_pc' = "idle"
    /\ h_task' = NULL
    /\ UNCHANGED <<tasks, files, next_id, response, enq_order, started, trace,
                   raised>>
    /\ UNCHANGED train_vars

\* the generation service in a process that can be restarted
RestartNext ==
    \/ Next
    \/ Restart

RestartSpec == Init /\ [][RestartNext]_vars

\* the generation service behind the audio endpoint, whose handler is run
\* statement by statement next to the worker thread
AudioNext ==
    \/ AudioEnqueue
    \/ AudioUnlink
    \/ DeleteQuery
    \/ DeleteRemoveFile
    \/ DeleteCommit
    \/ Worker

AudioSpec == Init /\ [][AudioNext]_vars

\* the generation service with a client that reads single tasks
TaskNext ==
    \/ Next
    \/ GetTask

TaskSpec == Init /\ [][TaskNext]_vars

\* the training controller with its handlers and background threads
TrainNext ==
    \/ StartTraining
    \/ ProcessDataset
    \/ StopSetFlag
    \/ StopSetMessage
    \/ \E t \in DOMAIN threads : TrainThread(t)
    \/ \E t \in DOMAIN threads : DatasetThread(t)

TrainSpec == TrainInit /\ [][TrainNext]_vars

\* the training controller, with the history of stop requests kept
StopNext ==
    \/ StartTraining
    \/ ProcessDataset
    \/ StopSetFlagInLoop
    \/ StopSetMessage
    \/ \E t \in DOMAIN threads : TrainThread(t)
    \/ \E t \in DOMAIN threads : DatasetThread(t)

StopSpec == TrainInit /\ [][StopNext]_vars

\* the training controller with a client that asks for a stop only while no
\* background run is active
IdleStopNext ==
    \/ StartTraining
    \/ ProcessDataset
    \/ (\A t \in DOMAIN threads : threads[t].pc = "done") /\ StopSetFlag
    \/ StopSetMessage
    \/ \E t \in DOMAIN threads : TrainThread(t)
    \/ \E t \in DOMAIN threads : DatasetThread(t)

IdleStopSpec == TrainInit /\ [][IdleStopNext]_vars

\* the training controller with MaxObservedRuns training runs and a client
\* that asks for a stop only once a start request has been accepted and its
\* run has not returned
PendingStopNext ==
    \/ Len(threads) < MaxObservedRuns /\ StartTraining
    \/ (\E t \in DOMAIN threads : threads[t].pc # "done") /\ StopSetFlag
    \/ StopSetMessage
    \/ \E t \in DOMAIN threads : TrainThread(t)

PendingStopSpec == TrainInit /\ [][PendingStopNext]_vars

\* the training controller and a client polling its status: the snapshots
\* returned are kept, and MaxObservedRuns background tasks are started
StatusNext ==
    \/ GetStatus
    \/ (Len(threads) < MaxObservedRuns \/ training_in_progress) /\ StartTraining
    \/ Len(threads) < MaxObservedRuns /\ ProcessDataset
    \/ StopSetFlag
    \/ StopSetMessage
    \/ \E t \in DOMAIN threads : TrainThread(t)
    \/ \E t \in DOMAIN threads : DatasetThread(t)

StatusSpec == TrainInit /\ [][StatusNext]_vars

\* the whole process: the generation service and the training controller
\* behind one event loop, with MaxSharedTasks tasks and MaxObservedRuns runs
SystemNext ==
    \/ next_id < MaxSharedTasks /\ Enqueue
    \/ DeleteQuery
    \/ DeleteRemoveFile
    \/ DeleteCommit
    \/ Worker
    \/ GetStatus
    \/ (Len(threads) < MaxObservedRuns \/ training_in_progress) /\ StartTraining
    \/ Len(threads) < MaxObservedRuns /\ ProcessDataset
    \/ StopSetFlag
    \/ StopSetMessage
    \/ \E t \in DOMAIN threads : TrainThread(t)
    \/ \E t \in DOMAIN threads : DatasetThread(t)

SystemSpec == TrainInit /\ [][SystemNext]_vars

\* a statement of a background function on a pool thread
ThreadStep(t) == t \in DOMAIN threads /\ (TrainThread(t) \/ DatasetThread(t))

\* every pool thread keeps running: each statement of start_training and of
\* process_dataset returns or raises, none waits for another thread
FairTrainSpec == TrainSpec /\ \A t \in 1..MaxRuns : WF_vars(ThreadStep(t))

\* the worker thread loops for the life of the process, and every call it
\* makes returns or raises: its next step is always taken in the end
FairSpec == Spec /\ WF_vars(Worker)

(* ------------------------------ claims -------------------------------- *)
Range(s) == {s[i] : i \in DOMAIN s}
Pos(s, x) == CHOOSE i \in DOMAIN s : s[i] = x
Terminal == {"completed", "failed"}
Busy(id) == w_pc # "idle" /\ w_task.task_id = id

\* C1: tasks leave Queued in the order their descriptors were put on the
\* queue, none is overtaken while its row exists, and none is picked up twice
C1_FifoOrder ==
    /\ \A i \in DOMAIN started : started[i] \in Range(enq_order)
    /\ \A i, j \in DOMAIN started :
          i < j => Pos(enq_order, started[i]) < Pos(enq_order, started[j])
    /\ \A i, j \in DOMAIN enq_order :
          (i < j /\ enq_order[j] \in Range(started))
             => \/ enq_order[i] \in Range(started)
                \/ ~Exists(enq_order[i])
    /\ \A id \in DOMAIN tasks :
          tasks[id].status # "queued" => id \in Range(started)

C1_Witness ==
    /\ started = <<1, 2>>
    /\ enq_order = <<1, 2>>
    /\ 2 \in DOMAIN tasks /\ tasks[2].status = "processing"

C3_RaisedIsFailed ==
    \A id \in TaskIds :
        raised[id] # "none" =>
            /\ (Exists(id) /\ ~Busy(id)) =>
                  tasks[id].status = "failed" /\ tasks[id].progress = P_QUEUED
            /\ \A i \in DOMAIN trace[id] : trace[id][i][1] # "completed"

C3_Witness ==
    /\ w_pc = "idle"
    /\ raised[1] = "write" /\ raised[2] = "conditioning"
    /\ Exists(1) /\ tasks[1].status = "failed" /\ tasks[1].progress = P_QUEUED
    /\ Exists(2) /\ tasks[2].status = "failed"

Settled(id) == ~Exists(id) \/ tasks[id].status \in Terminal

\* C4: every task whose row exists is in the end Completed or Failed, or its
\* row is deleted; a failure before it does not stop the worker.  From every
\* point of a run a point is reached where the task is settled
C4_AllProcessed == \A id \in 1..MaxTasks : []<>Settled(id)

C4_Witness ==
    /\ Exists(1) /\ tasks[1].status = "failed" /\ raised[1] = "generate"
    /\ Exists(2) /\ tasks[2].status = "completed"

CompletedTrace ==
    << <<"queued", P_QUEUED>>, <<"processing", P_STARTED>>,
       <<"processing", P_PARAMS>>, <<"processing", P_GENERATED>>,
       <<"completed", P_DONE>> >>

\* C5: the values committed for a task that ends Completed are exactly
\* (queued, 0.0) (processing, 0.1) (processing, 0.3) (processing, 0.8)
\* (completed, 1.0)
C5_Checkpoints ==
    \A id \in TaskIds :
        (\E i \in DOMAIN trace[id] : trace[id][i][1] = "completed")
            => trace[id] = CompletedTrace

C5_Witness == Exists(1) /\ tasks[1].status = "completed" /\ trace[1] = CompletedTrace

\* C6: a row has a file_path exactly when it is Completed
C6_FilePathIffCompleted ==
    \A id \in DOMAIN tasks :
        (tasks[id].file_path # NULL) <=> (tasks[id].status = "completed")

C6_Witness ==
    /\ Exists(1) /\ tasks[1].status = "failed" /\ FilePath(1) \in files
    /\ Exists(2) /\ tasks[2].status = "completed" /\ tasks[2].file_path = FilePath(2)

StatusStep(a, b) ==
    \/ a = b
    \/ a = "queued" /\ b = "processing"
    \/ a = "processing" /\ b \in Terminal

\* C7: a row's status moves only queued -> processing -> completed or
\* queued -> processing -> failed, and a Completed or Failed row is never
\* changed again (it can only be deleted, and a deleted row never returns)
C7_Lifecycle ==
    [][ /\ \A id \in DOMAIN tasks \cap DOMAIN tasks' :
             /\ StatusStep(tasks[id].status, tasks'[id].status)
             /\ tasks[id].status \in Terminal => tasks'[id] = tasks[id]
        /\ \A id \in DOMAIN tasks' \ DOMAIN tasks :
             /\ tasks'[id].status = "queued"
             /\ trace[id] = << >> ]_vars

C7_Witness ==
    /\ Exists(1) /\ tasks[1].status = "completed"
    /\ Exists(2) /\ tasks[2].status = "failed"
    /\ w_pc = "idle" /\ queue = << >>

\* C8: a generation request with an empty prompt or a duration outside
\* [MinDuration, MaxDuration] is answered InvalidRequest, and no row or
\* descriptor of such a request exists
C8_InvalidRejected ==
    /\ (response.op = "generate"
          /\ ~ValidRequest(response.prompt, response.duration))
         => response.code = 400
    /\ \A id \in DOMAIN tasks :
          ValidRequest(tasks[id].prompt, tasks[id].duration)
    /\ \A i \in DOMAIN queue : ValidRequest(queue[i].prompt, queue[i].duration)

\* C9: a valid generation request adds one row with an id never used before,
\* Queued with progress 0.0, puts one descriptor with that id at the tail of
\* the queue, and leaves every other row, every descriptor already queued
\* and the worker as they were; it can be made whatever the worker is doing
C9_EnqueueEffect ==
    /\ []((h_pc = "idle" /\ next_id < MaxTasks) => ENABLED Enqueue)
    /\ [][ (next_id' # next_id
              /\ ValidRequest(response'.prompt, response'.duration)) =>
            LET id == response'.task_id IN
            /\ response'.op = "generate" /\ response'.code = 200
            /\ id \notin DOMAIN tasks /\ trace[id] = << >>
            /\ DOMAIN tasks' = DOMAIN tasks \cup {id}
            /\ \A o \in DOMAIN tasks : tasks'[o] = tasks[o]
            /\ tasks'[id].status = "queued" /\ tasks'[id].progress = P_QUEUED
            /\ tasks'[id].file_path = NULL
            /\ tasks'[id].prompt = response'.prompt
            /\ tasks'[id].duration = response'.duration
            /\ Len(queue') = Len(queue) + 1
            /\ SubSeq(queue', 1, Len(queue)) = queue
            /\ queue'[Len(queue')].task_id = id
            /\ UNCHANGED <<files, w_pc, w_task, is_processing, started>> ]_vars

C9_Witness ==
    /\ response.op = "generate" /\ response.task_id = 2
    /\ ValidRequest(response.prompt, response.duration)
    /\ w_pc = "generate" /\ Exists(1) /\ tasks[1].status = "processing"
    /\ queue = <<Descriptor(2, response.prompt, response.duration, TRUE,
                          DefaultTemperature)>>
    /\ Exists(2) /\ tasks[2].status = "queued"

\* C10: a training start requested while the status is ProcessingDataset or
\* Training is refused: it is not answered as started, no run is started for
\* it, and the status record of the run in progress stays as it is
C10_StartRefusedWhileActive ==
    [][ ( /\ training_status.status \in {"processing_dataset", "training"}
          /\ \/ /\ Len(threads') > Len(threads)
                /\ threads'[Len(threads')].fn = "start_training"
             \/ /\ response' # response
                /\ response'.op = "train_start" )
        => /\ response'.code # 200
           /\ threads' = threads
           /\ training_status' = training_status ]_vars


\* C11: of the training runs started by concurrent start requests at most one
\* is in its epoch loop at any instant
C11_OneRunInLoop ==
    Cardinality({t \in DOMAIN threads : InEpochLoop(t)}) <= 1

Active(t) == threads[t].pc # "done"
ActiveRuns(fn) == {t \in DOMAIN threads : threads[t].fn = fn /\ Active(t)}

\* C12: dataset processing and training are never active together, no two
\* dataset runs are active together, and a dataset request made while a run
\* of either kind is active starts no run and leaves the status record alone
C12_DatasetRefusedWhileActive ==
    /\ [](/\ Cardinality(ActiveRuns("process_dataset")) <= 1
          /\ ~(ActiveRuns("process_dataset") # {}
                 /\ ActiveRuns("start_training") # {}))
    /\ [][ ( /\ \E t \in DOMAIN threads : Active(t)
             /\ response' # response
             /\ response'.op = "process_dataset" )
           => /\ response'.code # 200
              /\ threads' = threads
              /\ training_status' = training_status ]_vars

\* C13: a run that was in its epoch loop when Stop() was called begins at most
\* one further epoch after the call, leaves an epoch only by its last
\* statement, and (unless saving its checkpoint raises) returns as Completed
\* with the in-progress flag cleared
C13_StopAtEpochBoundary ==
    /\ [](\A t \in DOMAIN threads : threads[t].since_stop <= 1)
    /\ [][ \A t \in DOMAIN threads :
             /\ (threads[t].pc \in {"t130", "t131"} /\ threads'[t].pc # threads[t].pc)
                  => threads'[t].pc \in {"t131", "t132"}
             /\ (threads[t].pc = "t132" /\ threads'[t].pc # "t132")
                  => threads'[t].pc = "t127"
             /\ (threads[t].since_stop >= 0 /\ threads[t].pc = "t168"
                    /\ threads'[t].pc = "done")
                  => (threads'[t].outcome = "completed" /\ ~is_training') ]_vars

\* a step of thread t: every statement of a background function moves its pc
StepOf(t) == threads'[t].pc # threads[t].pc

\* C14: a dataset run that finds no audio file has set progress to 0.0, then
\* sets the status to failed and the message to "No audio files found" and
\* returns; it writes no manifest and does not write progress again.  When
\* it is the only run started, the record reads failed with progress 0.0
\* from its return on (a later Stop() replaces the message only)
C14_NoFilesFails ==
    /\ []((Len(threads) = 1 /\ threads[1].outcome = "no_files") =>
            /\ training_status.status = "failed"
            /\ training_status.progress = Frac(0, 1)
            /\ training_status.message \in
                  {<<"No audio files found">>, <<"Stopping training...">>})
    /\ [][ \A t \in DOMAIN threads :
          (threads[t].fn = "process_dataset" /\ StepOf(t)) =>
             LET pc == threads[t].pc IN
             /\ pc = "p34" => training_status'.progress = Frac(0, 1)
             /\ (pc = "p38" /\ threads'[t].n = 0) =>
                   /\ threads'[t].pc = "p41"
                   /\ UNCHANGED <<training_status, metadata>>
             /\ pc = "p41" =>
                   /\ threads'[t].pc = "p42"
                   /\ training_status' =
                        [training_status EXCEPT !.status = "failed"]
                   /\ UNCHANGED metadata
             /\ pc = "p42" =>
                   /\ threads'[t].pc = "done"
                   /\ threads'[t].outcome = "no_files"
                   /\ training_status' =
                        [training_status EXCEPT
                            !.message = <<"No audio files found">>]
                   /\ UNCHANGED metadata ]_vars

C14_Witness ==
    /\ Len(threads) = 1
    /\ threads[1].fn = "process_dataset" /\ threads[1].outcome = "no_files"
    /\ training_status.status = "failed"
    /\ training_status.message = <<"No audio files found">>
    /\ training_status.progress = Frac(0, 1)
    /\ metadata = NULL

CheckpointsOf(t) == {c \in DOMAIN checkpoints : checkpoints[c].thread = t}

\* C15: a training run that finds no manifest sets the status to failed and
\* the message, clears the in-progress flag and returns: it has run no epoch
\* and creates no checkpoint row.  When it is the only run started, the record
\* reads failed with epoch 0 and the flag is clear from its return on
C15_NotReadyFails ==
    /\ [](\A t \in DOMAIN threads :
            (threads[t].pc \in {"t116", "t117", "t118"}
               \/ threads[t].outcome = "not_ready")
              => (threads[t].i = 0 /\ CheckpointsOf(t) = {}))
    /\ []((Len(threads) = 1 /\ threads[1].outcome = "not_ready") =>
            /\ training_status.status = "failed"
            /\ training_status.epoch = 0
            /\ ~is_training
            /\ checkpoints = << >>)
    /\ [][ \A t \in DOMAIN threads :
          (threads[t].fn = "start_training" /\ StepOf(t)) =>
             LET pc == threads[t].pc IN
             /\ (pc = "t115" /\ metadata = NULL) =>
                   /\ threads'[t].pc = "t116"
                   /\ UNCHANGED <<training_status, is_training, checkpoints>>
             /\ pc = "t116" =>
                   /\ threads'[t].pc = "t117"
                   /\ training_status' =
                        [training_status EXCEPT !.status = "failed"]
                   /\ UNCHANGED checkpoints
             /\ pc = "t117" =>
                   /\ threads'[t].pc = "t118"
                   /\ training_status' =
                        [training_status EXCEPT
                            !.message = <<"Dataset not processed">>]
                   /\ UNCHANGED checkpoints
             /\ pc = "t118" =>
                   /\ threads'[t].pc = "done"
                   /\ threads'[t].outcome = "not_ready"
                   /\ ~is_training'
                   /\ UNCHANGED <<training_status, checkpoints>> ]_vars

C15_Witness ==
    /\ Len(threads) = 1
    /\ threads[1].fn = "start_training" /\ threads[1].outcome = "not_ready"
    /\ training_status.status = "failed"
    /\ training_status.message = <<"Dataset not processed">>
    /\ ~is_training
    /\ metadata = NULL /\ checkpoints = << >>

\* a training run between its `self.is_training = True` and its return
HoldsFlag(t) ==
    /\ threads[t].fn = "start_training"
    /\ threads[t].pc \notin {"t98", "t101", "done"}

Returned(t) == t \notin DOMAIN threads \/ threads[t].pc = "done"

\* C16: every run started returns in the end; a run that has set the flag
\* clears it by its last statement on each of its ways out (all epochs done,
\* early stop, no manifest, an exception), so the flag is clear whenever no
\* run is between setting it and returning; and with the flag clear a start
\* request is accepted and its run passes the check of the flag
C16_FlagCleared ==
    /\ \A t \in 1..MaxRuns : []<>Returned(t)
    /\ []((\A t \in DOMAIN threads : ~HoldsFlag(t)) => ~is_training)
    /\ []((~is_training /\ h_pc = "idle" /\ Len(threads) < MaxRuns)
            => ENABLED (StartTraining /\ response'.code = 200
                          /\ Len(threads') = Len(threads) + 1))
    /\ [][ \A t \in DOMAIN threads :
             /\ (HoldsFlag(t) /\ threads'[t].pc = "done")
                  => (~is_training'
                        /\ threads'[t].outcome \in
                             {"completed", "not_ready", "failed"})
             /\ (threads[t].pc = "t98" /\ StepOf(t) /\ ~is_training)
                  => threads'[t].pc = "t101" ]_vars

C16_Witness ==
    /\ Len(threads) = 2
    /\ threads[1].fn = "start_training" /\ threads[1].outcome = "failed"
    /\ threads[2].fn = "start_training" /\ threads[2].outcome = "completed"
    /\ ~is_training

\* C17: every checkpoint row was created by a training run, one row at most
\* for a run; a run that has returned as completed (all epochs done or
\* stopped early) has created exactly one, a run that has returned failed,
\* without a manifest or at the check of the flag has created none, and a
\* run that has created its row is on its way to return as completed; no
\* step changes or removes a row that exists
C17_CheckpointPerCompletedRun ==
    /\ [](/\ \A c \in DOMAIN checkpoints :
               /\ checkpoints[c].thread \in DOMAIN threads
               /\ threads[checkpoints[c].thread].fn = "start_training"
          /\ \A t \in DOMAIN threads :
               /\ Cardinality(CheckpointsOf(t)) <= 1
               /\ threads[t].outcome = "completed"
                    => Cardinality(CheckpointsOf(t)) = 1
               /\ (threads[t].pc = "done" /\ threads[t].outcome # "completed")
                    => CheckpointsOf(t) = {}
               /\ (threads[t].pc # "done" /\ CheckpointsOf(t) # {})
                    => threads[t].pc \in {"t165", "t166", "t167", "t168"})
    /\ [][ /\ Len(checkpoints') >= Len(checkpoints)
           /\ \A c \in DOMAIN checkpoints : checkpoints'[c] = checkpoints[c]
           /\ \A t \in DOMAIN threads :
                (threads[t].pc \in {"t165", "t166", "t167", "t168"} /\ StepOf(t))
                   => (threads'[t].pc \in {"t166", "t167", "t168"}
                         \/ threads'[t].outcome = "completed") ]_vars

C17_Witness ==
    /\ Len(threads) = 2
    /\ threads[1].outcome = "completed" /\ threads[2].outcome = "failed"
    /\ Len(checkpoints) = 1 /\ checkpoints[1].thread = 1
    /\ checkpoints[1].epochs = 2
    /\ should_stop /\ training_status.epoch = 1

\* C18: a status request can be answered whenever the event loop is free,
\* whatever the background runs are doing; it returns the items the record
\* has at that moment in a dict of its own and changes nothing else; what a
\* returned dict holds stays the same under every later step, and the dict is
\* not the controller's record, so a write to it cannot reach the record
C18_StatusIsCopy ==
    /\ [](h_pc = "idle" => ENABLED GetStatus)
    /\ [](response.op = "status" => ~response.body.alias)
    /\ [][ /\ (response.op = "status" /\ response' = response)
                => SnapshotItems(response.body)' = SnapshotItems(response.body)
           /\ (response'.op = "status" /\ response' # response)
                => /\ response'.body.items = training_status
                   /\ UNCHANGED <<training_status, is_training, should_stop,
                                  threads, metadata, checkpoints>> ]_vars

C18_Witness ==
    /\ response.op = "status"
    /\ response.body.items.status = "training"
    /\ response.body.items.epoch = 1
    /\ training_status.status = "completed"
    /\ threads[1].pc = "t167"

\* C19: a batch request that is answered 200 has made one queue_generation
\* call for each prompt: its answer lists as many ids as there are prompts,
\* they are the ids drawn during the call, in the order drawn, and the i-th
\* id is the row of the i-th prompt; and of two tasks the one enqueued second
\* is Completed only after the first, when the first did not fail and was not
\* deleted
C19_BatchInOrder ==
    /\ [](\A i, j \in DOMAIN enq_order :
            (/\ i < j
             /\ Exists(enq_order[j]) /\ tasks[enq_order[j]].status = "completed"
             /\ Exists(enq_order[i]) /\ raised[enq_order[i]] = "none")
              => tasks[enq_order[i]].status = "completed")
    /\ [][ (h_pc = "batch" /\ h_pc' = "idle" /\ response'.code = 200) =>
             LET prompts == h_task.prompts
                 ids == response'.task_ids
                 n == Len(prompts) IN
             /\ response'.op = "batch"
             /\ Len(ids) = n /\ response'.count = n
             /\ \A i \in 1..n :
                  /\ ids[i] = next_id - n + i
                  /\ Exists(ids[i]) /\ tasks[ids[i]].prompt = prompts[i]
                  /\ tasks[ids[i]].duration = BatchDuration
             /\ SubSeq(enq_order, Len(enq_order) - n + 1, Len(enq_order)) = ids
           ]_vars

C19_Witness ==
    /\ response.op = "batch" /\ response.code = 200
    /\ response.task_ids = <<1, 2>>
    /\ Exists(1) /\ tasks[1].prompt = "A" /\ tasks[1].status = "completed"
    /\ Exists(2) /\ tasks[2].prompt = "B" /\ tasks[2].status = "completed"
    /\ started = <<1, 2>>

\* C20: a batch request in which one queue_generation call fails is answered
\* as failed without task ids, and no row and no descriptor of a task that
\* the same request had already enqueued is left
C20_BatchAllOrNothing ==
    [][ (h_pc = "batch" /\ h_pc' = "idle" /\ response'.code # 200) =>
          /\ response'.op = "batch"
          /\ "task_ids" \notin DOMAIN response'
          /\ \A i \in DOMAIN h_task.task_ids :
               /\ ~(h_task.task_ids[i] \in DOMAIN tasks')
               /\ \A q \in DOMAIN queue' :
                    queue'[q].task_id # h_task.task_ids[i] ]_vars

Last(s) == s[Len(s)]

\* C21: a delete that has read a row with a file path removes the file while
\* the row is still there and then the row, so the row is never gone with
\* the file left; a row that is gone stays gone (its id is never drawn
\* again), its file does not come back, and a read of its id is answered 404
C21_DeleteFileThenRow ==
    [][ /\ (h_pc = "remove" /\ h_pc' # "remove" /\ h_task.file_path # NULL)
             => /\ h_pc' = "commit"
                /\ h_task.file_path \notin files'
                /\ h_task.task_id \in DOMAIN tasks'
        /\ (h_pc = "commit" /\ h_pc' # "commit" /\ h_task.file_path # NULL)
             => /\ h_task.task_id \notin DOMAIN tasks'
                /\ h_task.file_path \notin files'
                /\ response' = [op |-> "delete", code |-> 200]
        /\ \A id \in 1..next_id :
             ~Exists(id) =>
                /\ id \notin DOMAIN tasks'
                /\ FilePath(id) \notin files => FilePath(id) \notin files'
        /\ (response' # response /\ response'.op = "get")
             => /\ response'.code = 404 <=> ~Exists(response'.task_id)
                /\ UNCHANGED <<tasks, files, queue>> ]_vars

C21_Witness ==
    /\ response = [op |-> "get", task_id |-> 1, code |-> 404]
    /\ trace[1] # << >> /\ Last(trace[1])[1] = "completed"
    /\ ~Exists(1) /\ FilePath(1) \notin files

\* C22: a delete of an id that has no row is answered 404 at once and changes
\* no row, no file and no descriptor on the queue; a delete goes on to remove
\* anything only for an id whose row it has found
C22_DeleteAbsent ==
    [][ /\ (response' # response /\ response'.op = "delete" /\ h_pc = "idle")
             => /\ response'.code = 404
                /\ \E id \in TaskIds : ~Exists(id)
                /\ h_pc' = "idle"
                /\ UNCHANGED <<tasks, files, queue, w_pc, w_task, h_task>>
        /\ (h_pc = "idle" /\ h_pc' = "remove")
             => /\ Exists(h_task'.task_id)
                /\ UNCHANGED <<tasks, files, queue, response>> ]_vars

C22_Witness ==
    /\ response = [op |-> "delete", code |-> 404]
    /\ Exists(1) /\ tasks[1].status = "completed" /\ FilePath(1) \in files
    /\ Len(queue) = 1

\* the worker is in an iteration whose row has been deleted
InFlightDeleted ==
    /\ w_pc \notin {"idle", "lookup"}
    /\ ~Exists(w_task.task_id)

C24_CompletedAtSet ==
    \A id \in DOMAIN tasks :
        tasks[id].status \in Terminal <=> tasks[id].completed_at # NULL

\* C25: a start request is answered as started exactly when a run is started
\* for it, and a run that has returned has ended as Completed or as Failed
\* (a missing manifest included): none has returned without running
C25_NoSilentDrop ==
    /\ \A t \in DOMAIN threads :
          (threads[t].fn = "start_training" /\ Returned(t)) =>
              threads[t].outcome \in {"completed", "failed", "not_ready"}
    /\ (response.op = "train_start" /\ response.code = 200) =>
          \E t \in DOMAIN threads : threads[t].fn = "start_training"

\* the ways a step shows itself as one of the generation side (enqueue, the
\* worker, delete) or of the training side (the four training operations)
GenStep ==
    \/ <<tasks, files, queue, next_id, is_processing, w_pc, w_task>>'
          # <<tasks, files, queue, next_id, is_processing, w_pc, w_task>>
    \/ h_pc' # h_pc /\ {h_pc, h_pc'} \cap {"remove", "commit"} # {}
    \/ response' # response /\ response'.op \in {"generate", "delete"}

ControllerStep ==
    \/ <<is_training, should_stop, training_status, threads>>'
          # <<is_training, should_stop, training_status, threads>>
    \/ h_pc' # h_pc /\ "stop178" \in {h_pc, h_pc'}
    \/ response' # response
         /\ response'.op \in {"train_start", "process_dataset", "status"}

\* C26: a step of the training operations leaves the task rows and the
\* generation queue as they are, a step of enqueue, the worker or delete leaves
\* the training status, the in-progress flag and the stop flag as they are, and
\* no step is of both sides
C26_NoSharedState ==
    [][ /\ ControllerStep => UNCHANGED <<tasks, queue>>
        /\ GenStep => UNCHANGED <<training_status, is_training, should_stop>>
        /\ ~(GenStep /\ ControllerStep) ]_vars

C26_Witness ==
    /\ Exists(1) /\ tasks[1].status = "completed"
    /\ training_status.status = "completed" /\ ~is_training
    /\ should_stop
    /\ response = [op |-> "generate", prompt |-> "A", duration |-> 30,
                   task_id |-> 1, code |-> 200]

\* C27: a variations request for a base prompt and a count draws, at each
\* turn, one new id whose row carries the base prompt and whose descriptor, put
\* last on the queue, carries a temperature within the range; answered 200 it
\* lists exactly count ids, the ids drawn during the call in the order drawn
C27_Variations ==
    [][ /\ (h_pc = "variations" /\ next_id' # next_id) =>
             /\ next_id' = next_id + 1
             /\ tasks'[next_id'].prompt = h_task.base_prompt
             /\ queue' = Append(queue, Last(queue'))
             /\ Last(queue').task_id = next_id'
             /\ Last(queue').prompt = h_task.base_prompt
             /\ Last(queue').temperature >= temperature_range[1]
             /\ Last(queue').temperature <= temperature_range[2]
             /\ enq_order' = Append(enq_order, next_id')
        /\ (h_pc = "variations" /\ h_pc' = "idle" /\ response'.code = 200) =>
             LET ids == response'.task_ids
                 n == h_task.num_variations IN
             /\ response'.op = "variations"
             /\ Len(ids) = n /\ response'.count = n
             /\ \A i \in 1..n : ids[i] = next_id - n + i
             /\ SubSeq(enq_order, Len(enq_order) - n + 1, Len(enq_order)) = ids
      ]_vars

C27_Witness ==
    /\ response.op = "variations" /\ response.code = 200
    /\ response.task_ids = <<1, 2>>
    /\ w_pc = "idle"
    /\ Len(queue) = 2
    /\ queue[1].temperature = temperature_range[1]
    /\ queue[2].temperature = temperature_range[2]
    /\ tasks[1].prompt = "A" /\ tasks[2].prompt = "A"

\* a step of POST /api/train/stop
StopStep == h_pc' # h_pc /\ "stop178" \in {h_pc, h_pc'}

\* C28: a step of Stop() changes nothing but the stop flag, which it sets, and
\* the status message: status, progress, epoch, total_epochs, loss, the
\* in-progress flag and the runs are as before; and its return never waits
\* for a run: it is taken from whatever state the runs are in
C28_StopOnlySetsFlag ==
    /\ [][ StopStep =>
             /\ \A f \in DOMAIN training_status \ {"message"} :
                   training_status'[f] = training_status[f]
             /\ UNCHANGED <<is_training, threads, metadata, checkpoints>>
             /\ h_pc = "idle" =>
                   /\ should_stop'
                   /\ UNCHANGED <<training_status, response>>
             /\ h_pc = "stop178" =>
                   /\ UNCHANGED should_stop
                   /\ training_status'.message = <<"Stopping training...">>
                   /\ response' = [op |-> "train_stop", code |-> 200]
                   /\ h_pc' = "idle" ]_vars
    /\ [](h_pc = "stop178" => ENABLED StopSetMessage)

C28_Witness ==
    /\ response = [op |-> "train_stop", code |-> 200]
    /\ should_stop /\ is_training
    /\ training_status.status = "training"
    /\ training_status.epoch = 1 /\ training_status.total_epochs = 2
    /\ training_status.message = <<"Stopping training...">>
    /\ \E t \in DOMAIN threads : InEpochLoop(t)

\* a / b <= c / d, for fractions with positive denominators
FracLeq(x, y) == x[1] * y[2] <= y[1] * x[2]

\* a run is at one of the assignments that reset the status record for it
Resetting == \E t \in DOMAIN threads :
                threads[t].pc \in {"t103", "t104", "t105", "t106", "t107"}

\* C29: a training run writes the epoch numbers 1, 2, ... in order, none above
\* its epochs, each followed by the progress epoch / epochs, which is above the
\* one it wrote before and within [0, 1].  When it is the only run started,
\* the status record shows just that from its reset to its end: the epoch
\* counter stays or goes up by one and is never above total_epochs, and the
\* progress never goes down
C29_EpochsInOrder ==
    [][ /\ \A t \in DOMAIN threads :
             (threads[t].fn = "start_training" /\ StepOf(t)) =>
                LET i == threads[t].i
                    n == threads[t].epochs IN
                /\ threads[t].pc = "t130" =>
                      /\ training_status'.epoch = i + 1
                      /\ i + 1 <= n
                /\ threads[t].pc = "t131" =>
                      /\ training_status'.progress = Frac(i + 1, n)
                      /\ FracLeq(Frac(i, n), training_status'.progress)
                      /\ Frac(i, n) # training_status'.progress
                      /\ FracLeq(training_status'.progress, Frac(1, 1))
                /\ threads[t].pc = "t132" => threads'[t].i = i + 1
                /\ Active(t)' => threads'[t].i \in {i, i + 1}
        /\ ( /\ Len(threads') = 1
             /\ training_status.status = "training"
             /\ ~Resetting /\ ~Resetting' )
           => /\ training_status'.epoch \in
                    {training_status.epoch, training_status.epoch + 1}
              /\ training_status'.epoch <= training_status'.total_epochs
              /\ FracLeq(training_status.progress, training_status'.progress)
              /\ FracLeq(Frac(0, 1), training_status'.progress)
              /\ FracLeq(training_status'.progress, Frac(1, 1)) ]_vars

C29_Witness ==
    /\ Len(threads) = 1 /\ threads[1].fn = "start_training"
    /\ threads[1].pc = "t132" /\ threads[1].i = 1
    /\ training_status.status = "training"
    /\ training_status.epoch = 2 /\ training_status.total_epochs = 2
    /\ training_status.progress = Frac(1, 1)
    /\ training_status.message = <<"Training epoch", 1, 2>>

ProgressValues == {P_QUEUED, P_STARTED, P_PARAMS, P_GENERATED, P_DONE}

\* C31: the progress of a row is always one of 0.0, 0.1, 0.3, 0.8, 1.0; while
\* the row is Processing it does not go down; and once it is 1.0 it stays 1.0
\* for as long as the row exists
C31_ProgressValues ==
    /\ [](\A id \in DOMAIN tasks : tasks[id].progress \in ProgressValues)
    /\ [][ \A id \in DOMAIN tasks \cap DOMAIN tasks' :
             /\ (tasks[id].status = "processing"
                   /\ tasks'[id].status = "processing")
                  => tasks'[id].progress >= tasks[id].progress
             /\ tasks[id].progress = P_DONE => tasks'[id].progress = P_DONE
             /\ (tasks'[id].progress = P_QUEUED /\ tasks[id].progress # P_QUEUED)
                  => /\ tasks[id].status = "processing"
                     /\ tasks'[id].status = "failed" ]_vars

C31_Witness ==
    /\ Exists(1) /\ tasks[1].progress = P_DONE /\ trace[1] = CompletedTrace
    /\ Exists(2) /\ tasks[2].progress = P_QUEUED /\ tasks[2].status = "failed"
    /\ Len(trace[2]) = 5 /\ trace[2][4] = <<"processing", P_GENERATED>>

\* C32: a generation request whose row cannot be committed is answered with an
\* error and changes no row, no descriptor and nothing the worker holds; and
\* every descriptor on the queue or in the worker's hands names a task whose
\* row was committed
C32_PersistBeforePut ==
    /\ [][ (response' # response /\ response'.op = "generate"
               /\ response'.code # 200)
           => /\ response'.code = 500
              /\ UNCHANGED <<tasks, queue, next_id, enq_order, files, w_pc,
                             w_task, is_processing>> ]_vars
    /\ [](/\ \A i \in DOMAIN queue : trace[queue[i].task_id] # << >>
          /\ w_task # NULL => trace[w_task.task_id] # << >>)

C32_Witness ==
    /\ response.op = "generate" /\ response.code = 500
    /\ next_id = 1 /\ DOMAIN tasks = {1} /\ tasks[1].status = "processing"
    /\ queue = << >> /\ w_task # NULL /\ w_task.task_id = 1

\* a Queued row that no descriptor names, on the queue or in the worker's hands
Orphan(id) ==
    /\ StillQueued(id)
    /\ \A i \in DOMAIN queue : queue[i].task_id # id
    /\ w_task = NULL \/ w_task.task_id # id

\* C33: the queue is never refilled from the rows: a step leaves it as it is,
\* adds one descriptor of a new task at its tail, takes its head for the
\* worker, or (a restart) empties it.  So a Queued row whose descriptor is lost
\* stays Queued, with no descriptor, until it is deleted
C33_QueueNotPersisted ==
    [][ /\ \/ queue' = queue
           \/ queue' = << >>
           \/ /\ queue # << >> /\ queue' = Tail(queue)
              /\ w_task' = Head(queue)
           \/ /\ Len(queue') = Len(queue) + 1
              /\ SubSeq(queue', 1, Len(queue)) = queue
              /\ Last(queue').task_id \notin DOMAIN tasks
        /\ \A id \in DOMAIN tasks :
              Orphan(id) => (Orphan(id)' \/ id \notin DOMAIN tasks') ]_vars

C33_Witness ==
    /\ Orphan(1) /\ trace[1] = << <<"queued", P_QUEUED>> >>
    /\ Exists(2) /\ tasks[2].status = "completed"
    /\ w_pc = "idle" /\ queue = << >>

\* C34: a snapshot returned by GetStatus that shows status training shows a
\* progress equal to epoch / total_epochs
C34_SnapshotConsistent ==
    (response.op = "status" /\ response.body.items.status = "training") =>
        LET s == response.body.items IN
        s.progress[1] * s.total_epochs = s.epoch * s.progress[2]

\* the last answer is a status snapshot that shows a run ended
TerminalObserved ==
    /\ response.op = "status"
    /\ response.body.items.status \in {"completed", "failed"}

\* C35: when GetStatus answers with status completed or failed the in-progress
\* flag is not set, and a start request made next is not refused
C35_TerminalMeansFlagCleared ==
    [][ /\ (response' # response /\ TerminalObserved') => ~is_training
        /\ (TerminalObserved /\ response' # response
              /\ response'.op = "train_start") => response'.code = 200 ]_vars

\* C36: when stops are requested only while no run is active, a dataset run
\* takes every file it found and a training run goes through all its epochs:
\* neither leaves its loop early
C36_StaleStopIgnored ==
    [][ \A t \in DOMAIN threads :
          /\ (threads[t].pc = "p48" /\ StepOf(t) /\ threads[t].i < threads[t].n)
                => threads'[t].pc = "p52"
          /\ (threads[t].pc = "t127" /\ StepOf(t)
                /\ threads[t].i < threads[t].epochs)
                => threads'[t].pc = "t130" ]_vars

\* C37: a dataset run writes its manifest only with the entries of every file
\* it found, and returns as processed only having taken every file
C37_ManifestComplete ==
    [][ \A t \in DOMAIN threads :
          (threads[t].fn = "process_dataset" /\ StepOf(t)) =>
             /\ (threads[t].pc = "p66" /\ threads'[t].pc = "p68")
                   => Len(metadata'.entries) = threads[t].n
             /\ threads[t].pc \in {"p68", "p69", "p70"}
                   => Len(threads[t].processed) = threads[t].n ]_vars

\* the row of id was deleted before the worker started on it
DeletedWhileQueued(id) ==
    /\ ~Exists(id)
    /\ trace[id] = << <<"queued", P_QUEUED>> >>

\* C38: the worker, having taken the descriptor of a task whose row is gone,
\* ends the iteration at the lookup: it changes no row and no file, starts no
\* generation for the task, and is free for the next descriptor; such a task
\* is never started, has no file and gets no row again
C38_SkipDeletedQueued ==
    /\ [][ (w_pc = "lookup" /\ w_pc' # w_pc /\ ~Exists(w_task.task_id)) =>
             /\ w_pc' = "idle" /\ w_task' = NULL /\ ~is_processing'
             /\ UNCHANGED <<tasks, files, queue, started, raised, trace>> ]_vars
    /\ [](\A id \in TaskIds :
            DeletedWhileQueued(id) =>
               /\ id \notin Range(started)
               /\ FilePath(id) \notin files
               /\ raised[id] = "none")
    /\ []((w_pc = "idle" /\ queue # << >>) => ENABLED WorkerDequeue)

C38_Witness ==
    /\ DeletedWhileQueued(1) /\ enq_order = <<1, 2>>
    /\ started = <<2>>
    /\ Exists(2) /\ tasks[2].status = "completed"
    /\ w_pc = "idle" /\ queue = << >>

\* C39: when the worker reads the conditioning audio of a task the temp file
\* is there, and the endpoint removes the file only when the task it was
\* uploaded for is Completed, Failed or deleted
C39_ConditioningFileKept ==
    [][ /\ (w_pc = "generate" /\ w_pc' # w_pc /\ w_task.audio_conditioning)
             => TempPath \in files
        /\ (h_pc = "unlink" /\ h_pc' # h_pc) => Settled(h_task.task_id) ]_vars

\* C40: once a stop requested for an accepted run has been answered, the run
\* leaves its epoch loop at its next test of the flag: it begins no further
\* epoch
C40_StopNotLost ==
    [][ \A t \in DOMAIN threads :
          (threads[t].pc = "t127" /\ StepOf(t) /\ response.op = "train_stop")
             => threads'[t].pc = "t146" ]_vars
====
